---- MODULE Spec2Model ----
(***************************************************************************)
(* The MediaConvert job submitter of main.py: one Lambda handler that      *)
(* validates a request, derives an S3 object key, fills the job template   *)
(* job.json, calls describe_endpoints and create_job, and returns an HTTP  *)
(* style response.  Text that the handler cuts, joins or formats is a      *)
(* sequence of one-character strings; opaque tokens (dictionary keys of    *)
(* the request, exception names, ARNs) are TLA+ strings.                   *)
(***************************************************************************)
EXTENDS Integers, Sequences, FiniteSets, TLC

(* ------------------------------ bounds --------------------------------- *)

\* Number of invocation slots of the hosting platform.
NumInvocations == 2

\* Longest source URL of the enumerated URL family (over UrlAlphabet).
MaxUrlLen == 4

Procs == 1..NumInvocations

(* --------------------------- text literals ----------------------------- *)

ErrorMessage ==
  <<"E", "r", "r", "o", "r", ":", " ", "R", "e", "q", "u", "i", "r", "e", "d", " ", "f", "i", "e", "l", "d", "s", " ", "a", "r", "e", " ", "m", "i", "s", "s", "i", "n", "g", " ", "i", "n", " ", "r", "e", "q", "u", "e", "s", "t", " ", "b", "o", "d", "y">>

S3Scheme ==
  <<"s", "3", ":", "/", "/">>

PublicPrefix ==
  <<"/", "p", "u", "b", "l", "i", "c", "/">>

HlsInfix ==
  <<"/", "H", "L", "S", "/">>

HttpsScheme ==
  <<"h", "t", "t", "p", "s", ":", "/", "/">>

S3HostInfix ==
  <<".", "s", "3", ".">>

AwsHostSuffix ==
  <<".", "a", "m", "a", "z", "o", "n", "a", "w", "s", ".", "c", "o", "m">>

M3u8Suffix ==
  <<".", "m", "3", "u", "8">>

K_final_video_url ==
  <<"f", "i", "n", "a", "l", "_", "v", "i", "d", "e", "o", "_", "u", "r", "l">>

K_thumbnail_url ==
  <<"t", "h", "u", "m", "b", "n", "a", "i", "l", "_", "u", "r", "l">>

K_video_s3_key ==
  <<"v", "i", "d", "e", "o", "_", "s", "3", "_", "k", "e", "y">>

K_video_s3_path ==
  <<"v", "i", "d", "e", "o", "_", "s", "3", "_", "p", "a", "t", "h">>

K_final_video_hls_url ==
  <<"f", "i", "n", "a", "l", "_", "v", "i", "d", "e", "o", "_", "h", "l", "s", "_", "u", "r", "l">>

UrlClip ==
  <<"h", "t", "t", "p", "s", ":", "/", "/", "e", "x", "a", "m", "p", "l", "e", ".", "c", "o", "m", "/", "i", "n", "/", "c", "l", "i", "p", ".", "m", "p", "4">>

UrlTar ==
  <<"s", "3", ":", "/", "/", "i", "n", "/", "a", ".", "b", "/", "x", ".", "t", "a", "r", ".", "g", "z">>

BucketMy ==
  <<"m", "y", "-", "b", "u", "c", "k", "e", "t">>

BucketOther ==
  <<"o", "u", "t">>

RegionEast ==
  <<"u", "s", "-", "e", "a", "s", "t", "-", "1">>

RegionWest ==
  <<"e", "u", "-", "w", "e", "s", "t", "-", "2">>

IdAsset ==
  <<"a", "s", "s", "e", "t", "-", "7">>

BaseClip ==
  <<"c", "l", "i", "p">>

PlaceholderInput ==
  <<"s", "3", ":", "/", "/", "p", "l", "a", "c", "e", "h", "o", "l", "d", "e", "r", "/", "i", "n">>

PlaceholderDestination ==
  <<"s", "3", ":", "/", "/", "p", "l", "a", "c", "e", "h", "o", "l", "d", "e", "r", "/", "o", "u", "t", "/">>
EmptyStr == <<>>

DigitChars == <<"0", "1", "2", "3", "4", "5", "6", "7", "8", "9">>

(* ------------------------- library functions --------------------------- *)

\* str.rfind(c) as a 1-based index, 0 when c does not occur.
RECURSIVE Rfind(_, _)
Rfind(p, c) ==
  IF Len(p) = 0 THEN 0
  ELSE IF p[Len(p)] = c THEN Len(p)
  ELSE Rfind(SubSeq(p, 1, Len(p) - 1), c)

\* posixpath.basename: i = p.rfind('/') + 1; return p[i:]
Basename(p) == SubSeq(p, Rfind(p, "/") + 1, Len(p))

\* genericpath._splitext's loop: the first index in filenameIndex..dotIndex-1
\* holding a character other than '.', or 0 when there is none.
RECURSIVE SkipLeadingDots(_, _, _)
SkipLeadingDots(p, filenameIndex, dotIndex) ==
  IF filenameIndex >= dotIndex THEN 0
  ELSE IF p[filenameIndex] # "." THEN filenameIndex
  ELSE SkipLeadingDots(p, filenameIndex + 1, dotIndex)

\* A plausible slip: the extension is cut at the first dot of the name.
Splitext_FirstDot(p) ==
  LET sepIndex == Rfind(p, "/")
      dots == {d \in (sepIndex + 1)..Len(p) : p[d] = "."}
      first == IF dots = {} THEN 0 ELSE CHOOSE d \in dots : \A e \in dots : d <= e
  IN  IF first > sepIndex + 1
      THEN <<SubSeq(p, 1, first - 1), SubSeq(p, first, Len(p))>>
      ELSE <<p, EmptyStr>>

\* os.path.splitext (posix): <<root, ext>>, ext starting at the last dot
\* after the last '/', leading dots of the name not counting.
Splitext(p) ==
  LET sepIndex == Rfind(p, "/")
      dotIndex == Rfind(p, ".")
  IN  IF dotIndex > sepIndex /\ SkipLeadingDots(p, sepIndex + 1, dotIndex) # 0
      THEN <<SubSeq(p, 1, dotIndex - 1), SubSeq(p, dotIndex, Len(p))>>
      ELSE <<p, EmptyStr>>

\* Decimal digits of a natural number.
RECURSIVE Digits(_)
Digits(n) ==
  IF n < 10 THEN <<DigitChars[n + 1]>>
  ELSE Digits(n \div 10) \o <<DigitChars[(n % 10) + 1]>>

\* str() of a decoded JSON value: a string is itself, an integer its decimal.
PyStr(v) ==
  IF "num" \in DOMAIN v
  THEN IF v.num < 0 THEN <<"-">> \o Digits(0 - v.num) ELSE Digits(v.num)
  ELSE v.str

\* A strftime field: decimal, zero-padded to width w.
ZeroPad(n, w) ==
  LET d == Digits(n)
  IN  IF Len(d) >= w THEN d ELSE [k \in 1..(w - Len(d)) |-> "0"] \o d

\* A plausible slip: the format stops at the minute ("%Y%m%d%H%M").
Strftime_NoSeconds(t) ==
  ZeroPad(t.year, 4) \o ZeroPad(t.month, 2) \o ZeroPad(t.day, 2)
    \o ZeroPad(t.hour, 2) \o ZeroPad(t.minute, 2)

\* datetime.strftime("%Y%m%d%H%M%S"); the microsecond is dropped.
Strftime(t) ==
  ZeroPad(t.year, 4) \o ZeroPad(t.month, 2) \o ZeroPad(t.day, 2)
    \o ZeroPad(t.hour, 2) \o ZeroPad(t.minute, 2) \o ZeroPad(t.second, 2)

\* json.dumps of a str: quotes and backslashes escaped, wrapped in quotes.
RECURSIVE JsonEscape(_)
JsonEscape(s) ==
  IF Len(s) = 0 THEN EmptyStr
  ELSE (IF Head(s) = "\"" THEN <<"\\", "\"">>
        ELSE IF Head(s) = "\\" THEN <<"\\", "\\">>
        ELSE <<Head(s)>>) \o JsonEscape(Tail(s))

JsonDumpsStr(s) == <<"\"">> \o JsonEscape(s) \o <<"\"">>

\* json.dumps of a dict of str, kept as its items in insertion order.
RECURSIVE JsonItems(_)
JsonItems(items) ==
  IF Len(items) = 0 THEN EmptyStr
  ELSE JsonDumpsStr(items[1].key) \o <<":", " ">> \o JsonDumpsStr(items[1].value)
         \o (IF Len(items) = 1 THEN EmptyStr ELSE <<",", " ">> \o JsonItems(Tail(items)))

JsonDumpsDict(items) == <<"{">> \o JsonItems(items) \o <<"}">>

\* A local name before and after its first assignment.
Unbound == [bound |-> FALSE]

Bound(v) == [bound |-> TRUE, val |-> v]

(* --------------------- the handler's computations ---------------------- *)

RequiredFields ==
  {"video_source_url", "destination_bucket", "destination_bucket_region", "uniqueId"}

\* A plausible slip: the test for uniqueId is forgotten.
MissingRequired_ForgetsUniqueId(body) ==
  \/ "video_source_url" \notin DOMAIN body
  \/ "destination_bucket" \notin DOMAIN body
  \/ "destination_bucket_region" \notin DOMAIN body

\* The condition of the if statement that guards the 400 reply.
MissingRequired(body) ==
  \/ "video_source_url" \notin DOMAIN body
  \/ "destination_bucket" \notin DOMAIN body
  \/ "destination_bucket_region" \notin DOMAIN body
  \/ "uniqueId" \notin DOMAIN body

Headers ==
  [h \in {"Content-Type", "Access-Control-Allow-Origin"} |->
     IF h = "Content-Type" THEN "application/json" ELSE "*"]

\* What an invocation hands back to the host: nothing yet, a returned
\* response, or an exception that left the handler.
NoResult == [kind |-> "none"]

Returned(status, body) ==
  [kind |-> "response", statusCode |-> status, body |-> body, headers |-> Headers]

Raised(exc, context) == [kind |-> "error", exc |-> exc, context |-> context]

ErrorResponse == Returned(400, JsonDumpsStr(ErrorMessage))

EnvNames == {"MediaConvertRole", "AWS_DEFAULT_REGION"}

ConfigPresent(env) == EnvNames \subseteq DOMAIN env

\* A plausible slip: the environment is read before the request is checked.
EntryOutcome_ConfigFirst(body, env) ==
  IF ~ConfigPresent(env) THEN "KeyError:environ"
  ELSE IF MissingRequired(body) THEN "reject"
  ELSE IF ~(RequiredFields \subseteq DOMAIN body) THEN "KeyError:reqBody"
  ELSE "proceed"

\* The order of the statements before the try block: the presence test, the
\* four subscripts of reqBody, then the two subscripts of os.environ.
EntryOutcome(body, env) ==
  IF MissingRequired(body) THEN "reject"
  ELSE IF ~(RequiredFields \subseteq DOMAIN body) THEN "KeyError:reqBody"
  ELSE IF ~ConfigPresent(env) THEN "KeyError:environ"
  ELSE "proceed"

SourceS3Basename(video_source_url) == Splitext(Basename(video_source_url))[1]

DestinationS3(destination_bucket_name) == S3Scheme \o destination_bucket_name

\* The locals assigned between the validation and the try block.
Locals(body, t, env) ==
  [video_source_url |-> body["video_source_url"],
   destination_bucket_name |-> body["destination_bucket"],
   destination_bucket_region |-> body["destination_bucket_region"],
   uniqueId |-> PyStr(body["uniqueId"]),
   sourceS3Basename |-> SourceS3Basename(body["video_source_url"]),
   destinationS3 |-> DestinationS3(body["destination_bucket"]),
   currentTime_in_string |-> Strftime(t),
   mediaConvertRole |-> env["MediaConvertRole"],
   region |-> env["AWS_DEFAULT_REGION"],
   jobMetadata |-> [assetID |-> PyStr(body["uniqueId"])]]

VideoS3Key(uniqueId, currentTime_in_string, sourceS3Basename) ==
  PublicPrefix \o uniqueId \o <<"/">> \o currentTime_in_string
    \o HlsInfix \o sourceS3Basename

\* A plausible slip: the destination is the bucket root, without the key.
FillJobSettings_NoKey(settings, video_source_url, destinationS3, video_S3Key) ==
  [settings EXCEPT
     !.Inputs[1].FileInput = video_source_url,
     !.OutputGroups[1].OutputGroupSettings.HlsGroupSettings.Destination =
        destinationS3]

\* The two assignments into the loaded template.
FillJobSettings(settings, video_source_url, destinationS3, video_S3Key) ==
  [settings EXCEPT
     !.Inputs[1].FileInput = video_source_url,
     !.OutputGroups[1].OutputGroupSettings.HlsGroupSettings.Destination =
        destinationS3 \o video_S3Key]

CreateJobArgs(endpoint_url, mediaConvertRole, jobMetadata, settings) ==
  [endpoint_url |-> endpoint_url, Role |-> mediaConvertRole,
   UserMetadata |-> jobMetadata, Settings |-> settings]

Item(k, v) == [key |-> k, value |-> v]

\* A plausible slip: the thumbnail slot is filled with the object key.
OutputData_Thumbnail(settings, video_S3Key, destinationS3, bucket, region) ==
  << Item(K_final_video_url,
          settings.OutputGroups[1].OutputGroupSettings.HlsGroupSettings.Destination),
     Item(K_thumbnail_url, video_S3Key),
     Item(K_video_s3_key, video_S3Key),
     Item(K_video_s3_path, destinationS3 \o video_S3Key),
     Item(K_final_video_hls_url,
          HttpsScheme \o bucket \o S3HostInfix \o region \o AwsHostSuffix
            \o video_S3Key \o M3u8Suffix) >>

\* outputData, as its items in the order the handler assigns them.
OutputData(settings, video_S3Key, destinationS3, bucket, region) ==
  << Item(K_final_video_url,
          settings.OutputGroups[1].OutputGroupSettings.HlsGroupSettings.Destination),
     Item(K_thumbnail_url, EmptyStr),
     Item(K_video_s3_key, video_S3Key),
     Item(K_video_s3_path, destinationS3 \o video_S3Key),
     Item(K_final_video_hls_url,
          HttpsScheme \o bucket \o S3HostInfix \o region \o AwsHostSuffix
            \o video_S3Key \o M3u8Suffix) >>

\* The repair the defect invites: an unassigned outputData is sent as null.
FinallyOutcome_NullBody(status, out, exc) ==
  IF out.bound THEN Returned(status, JsonDumpsDict(out.val))
  ELSE Returned(status, <<"n", "u", "l", "l">>)

\* The return statement of the finally block.  Reading the unassigned local
\* outputData raises UnboundLocalError, which replaces the exception in
\* flight; a completed return discards the exception in flight.
FinallyOutcome(status, out, exc) ==
  IF out.bound THEN Returned(status, JsonDumpsDict(out.val))
  ELSE Raised("UnboundLocalError", exc)

\* A plausible slip: the filled settings are kept as the template.
JobFileAfterFill_WriteBack(file, filled) == [file EXCEPT !.doc = filled]

\* job.json after the template is filled.  The handler opens the file for
\* reading and assigns into the object json.load returned: the file is what
\* it was.
JobFileAfterFill(file, filled) == file

(* ------------------------------ inputs --------------------------------- *)

UrlAlphabet == {"/", ".", "a"}

\* Every text over UrlAlphabet of at most n characters.
TextsUpTo(n) == UNION {[1..k -> UrlAlphabet] : k \in 0..n}

\* A decoded request body (a JSON object) holding the keys ks; a key the
\* handler does not know holds a text.
MkReq(ks, url, bucket, region, id) ==
  [k \in ks |->
     CASE k = "video_source_url" -> url
       [] k = "destination_bucket" -> bucket
       [] k = "destination_bucket_region" -> region
       [] k = "uniqueId" -> id
       [] OTHER -> <<"x">>]

UniqueIds == {[str |-> IdAsset], [num |-> 42], [num |-> 0 - 5]}

\* Bodies with every subset of the required keys, with and without a key
\* the handler does not know.
KeyFamily ==
  {MkReq(ks, url, bucket, region, id) :
     ks \in SUBSET (RequiredFields \cup {"callback_url"}), url \in {UrlClip, UrlTar},
     bucket \in {BucketMy, BucketOther}, region \in {RegionEast, RegionWest},
     id \in UniqueIds}

\* Complete bodies whose source URL runs over every short text.
UrlFamily ==
  {MkReq(RequiredFields, url, BucketMy, RegionEast, [num |-> 42]) :
     url \in TextsUpTo(MaxUrlLen)}

Requests == KeyFamily \cup UrlFamily

\* The bodies delivered when invocations overlap.
ConcRequests ==
  <<MkReq(RequiredFields, UrlClip, BucketMy, RegionEast, [num |-> 42]),
    MkReq(RequiredFields, UrlTar, BucketOther, RegionWest, [str |-> IdAsset])>>

MkTime(y, mo, d, h, mi, s, us) ==
  [year |-> y, month |-> mo, day |-> d, hour |-> h, minute |-> mi,
   second |-> s, microsecond |-> us]

\* Values datetime.now() may return: two within one second and one in the
\* second after.
DateTimes ==
  {MkTime(2026, 11, 2, 13, 5, 9, 0), MkTime(2026, 11, 2, 13, 5, 9, 250000),
   MkTime(2026, 11, 2, 13, 5, 10, 0)}

FullEnviron ==
  [n \in EnvNames |->
     IF n = "MediaConvertRole" THEN "arn:aws:iam::111122223333:role/MediaConvertRole"
     ELSE "us-east-1"]

Environs == {[n \in ns |-> FullEnviron[n]] : ns \in SUBSET EnvNames}

\* job.json: the two slots the handler assigns, among settings it leaves.
JobTemplate ==
  [Inputs |-> <<[FileInput |-> PlaceholderInput, TimecodeSource |-> "ZEROBASED"]>>,
   OutputGroups |->
     <<[Name |-> "Apple HLS",
        OutputGroupSettings |->
          [Type |-> "HLS_GROUP_SETTINGS",
           HlsGroupSettings |->
             [SegmentLength |-> 10, Destination |-> PlaceholderDestination]]]>>]

\* A template whose Inputs list is empty: Inputs[0] raises IndexError.
JobTemplateNoInputs == [JobTemplate EXCEPT !.Inputs = <<>>]

ReadableFile(doc) == [readable |-> TRUE, doc |-> doc]

MissingFile == [readable |-> FALSE]

JobFiles == {ReadableFile(JobTemplate), ReadableFile(JobTemplateNoInputs), MissingFile}

\* What describe_endpoints and create_job may do.
DescribeOutcomes ==
  {[raises |-> TRUE],
   [raises |-> FALSE,
    value |-> [Endpoints |-> <<[Url |-> "https://abcd1234.mediaconvert.us-east-1.amazonaws.com"]>>]],
   [raises |-> FALSE, value |-> [Endpoints |-> <<>>]]}

CreateJobOutcomes ==
  {[raises |-> TRUE],
   [raises |-> FALSE, value |-> [Job |-> [Id |-> "job-1", Status |-> "SUBMITTED"]]],
   [raises |-> FALSE, value |-> [Job |-> [Id |-> "job-2", Status |-> "SUBMITTED"]]]}

NoEvent == [present |-> FALSE]

Event(body) == [present |-> TRUE, body |-> body]

(* ------------------------------- state --------------------------------- *)

VARIABLES
  environ,      \* os.environ of the function
  jobFile,      \* job.json in the deployment package
  event,        \* the event the platform delivers to each slot
  pc,           \* where each invocation stands
  reqBody,      \* json.loads(event["body"])
  now,          \* the value datetime.now() returned
  locals,       \* the locals assigned before the try block
  statusCode,
  jobSettings,
  endpoints,
  video_S3Key,
  job,          \* what create_job returned
  outputData,
  pending,      \* the exception in flight when the finally block ran
  result,       \* what the host receives
  calls         \* the file reads and service calls made, in order

vars ==
  <<environ, jobFile, event, pc, reqBody, now, locals, statusCode, jobSettings,
    endpoints, video_S3Key, job, outputData, pending, result, calls>>

InitLocals ==
  /\ pc = [i \in Procs |-> "idle"]
  /\ reqBody = [i \in Procs |-> Unbound]
  /\ now = [i \in Procs |-> Unbound]
  /\ locals = [i \in Procs |-> Unbound]
  /\ statusCode = [i \in Procs |-> Unbound]
  /\ jobSettings = [i \in Procs |-> Unbound]
  /\ endpoints = [i \in Procs |-> Unbound]
  /\ video_S3Key = [i \in Procs |-> Unbound]
  /\ job = [i \in Procs |-> Unbound]
  /\ outputData = [i \in Procs |-> Unbound]
  /\ pending = [i \in Procs |-> "none"]
  /\ result = [i \in Procs |-> NoResult]
  /\ calls = [i \in Procs |-> <<>>]

\* One request, any body, any configuration, any state of job.json.
Init ==
  /\ environ \in Environs
  /\ jobFile \in JobFiles
  /\ \E r \in Requests : event = [i \in Procs |-> IF i = 1 THEN Event(r) ELSE NoEvent]
  /\ InitLocals

\* Every slot holds a complete request; the deployment is sound.  The slots
\* are interchangeable, so the requests are dealt in one order only.
InitConc ==
  /\ environ = FullEnviron
  /\ jobFile = ReadableFile(JobTemplate)
  /\ \E rs \in [Procs -> 1..Len(ConcRequests)] :
       /\ \A i, j \in Procs : i <= j => rs[i] <= rs[j]
       /\ event = [i \in Procs |-> Event(ConcRequests[rs[i]])]
  /\ InitLocals

(* ------------------------------ actions -------------------------------- *)

Call(op, args) == [op |-> op, args |-> args]

\* A plausible slip: a failed step starts the try block again.
ExceptClause_Retry(i, exc) ==
  /\ pc' = [pc EXCEPT ![i] = "load"]
  /\ UNCHANGED <<pending, statusCode, result>>

\* The except clause (log, statusCode = 500, raise) and the finally block
\* that runs on the way out.
ExceptClause(i, exc) ==
  /\ pending' = [pending EXCEPT ![i] = exc]
  /\ statusCode' = [statusCode EXCEPT ![i] = Bound(500)]
  /\ result' = [result EXCEPT ![i] = FinallyOutcome(500, outputData[i], exc)]
  /\ pc' = [pc EXCEPT ![i] = "done"]

\* The handler up to the try block: decode, validate, derive, read the clock
\* and the environment.
Invoke(i) ==
  /\ pc[i] = "idle"
  /\ event[i].present
  /\ LET body == event[i].body
         outcome == EntryOutcome(body, environ)
     IN  /\ reqBody' = [reqBody EXCEPT ![i] = Bound(body)]
         /\ CASE outcome = "reject" ->
                   /\ result' = [result EXCEPT ![i] = ErrorResponse]
                   /\ pc' = [pc EXCEPT ![i] = "done"]
                   /\ UNCHANGED <<now, locals, statusCode>>
              [] outcome = "KeyError:reqBody" ->
                   /\ result' = [result EXCEPT ![i] = Raised("KeyError", "none")]
                   /\ pc' = [pc EXCEPT ![i] = "done"]
                   /\ UNCHANGED <<now, locals, statusCode>>
              [] outcome = "KeyError:environ" ->
                   /\ \E t \in DateTimes : now' = [now EXCEPT ![i] = Bound(t)]
                   /\ result' = [result EXCEPT ![i] = Raised("KeyError", "none")]
                   /\ pc' = [pc EXCEPT ![i] = "done"]
                   /\ UNCHANGED <<locals, statusCode>>
              [] OTHER ->
                   /\ \E t \in DateTimes :
                        /\ now' = [now EXCEPT ![i] = Bound(t)]
                        /\ locals' = [locals EXCEPT ![i] = Bound(Locals(body, t, environ))]
                   /\ statusCode' = [statusCode EXCEPT ![i] = Bound(200)]
                   /\ pc' = [pc EXCEPT ![i] = "load"]
                   /\ UNCHANGED result
  /\ UNCHANGED <<environ, jobFile, event, jobSettings, endpoints, video_S3Key,
                 job, outputData, pending, calls>>

\* with open('job.json') as json_data: jobSettings = json.load(json_data)
LoadTemplate(i) ==
  /\ pc[i] = "load"
  /\ calls' = [calls EXCEPT ![i] = Append(@, Call("open", [file |-> "job.json"]))]
  /\ IF jobFile.readable
     THEN /\ jobSettings' = [jobSettings EXCEPT ![i] = Bound(jobFile.doc)]
          /\ pc' = [pc EXCEPT ![i] = "describe"]
          /\ UNCHANGED <<pending, statusCode, result>>
     ELSE /\ ExceptClause(i, "FileNotFoundError")
          /\ UNCHANGED jobSettings
  /\ UNCHANGED <<environ, jobFile, event, reqBody, now, locals, endpoints,
                 video_S3Key, job, outputData>>

\* mc_client.describe_endpoints() and, when it returns, the client for the
\* discovered endpoint and the filling of the template.
DescribeEndpoints(i) ==
  /\ pc[i] = "describe"
  /\ calls' = [calls EXCEPT ![i] =
                 Append(@, Call("describe_endpoints", [region_name |-> locals[i].val.region]))]
  /\ \E o \in DescribeOutcomes :
       IF o.raises
       THEN /\ ExceptClause(i, "ClientError")
            /\ UNCHANGED <<endpoints, jobSettings, video_S3Key, jobFile>>
       ELSE /\ endpoints' = [endpoints EXCEPT ![i] = Bound(o.value)]
            /\ IF \/ Len(o.value.Endpoints) = 0
                  \/ Len(jobSettings[i].val.Inputs) = 0
                  \/ Len(jobSettings[i].val.OutputGroups) = 0
               THEN /\ ExceptClause(i, "IndexError")
                    /\ UNCHANGED <<jobSettings, video_S3Key, jobFile>>
               ELSE LET l == locals[i].val
                        key == VideoS3Key(l.uniqueId, l.currentTime_in_string,
                                          l.sourceS3Basename)
                        filled == FillJobSettings(jobSettings[i].val, l.video_source_url,
                                                  l.destinationS3, key)
                    IN  /\ jobSettings' = [jobSettings EXCEPT ![i] = Bound(filled)]
                        /\ video_S3Key' = [video_S3Key EXCEPT ![i] = Bound(key)]
                        /\ jobFile' = JobFileAfterFill(jobFile, filled)
                        /\ pc' = [pc EXCEPT ![i] = "submit"]
                        /\ UNCHANGED <<pending, statusCode, result>>
  /\ UNCHANGED <<environ, event, reqBody, now, locals, job, outputData>>

\* client.create_job(...); when it returns, the five outputData items and
\* the finally block's return.
CreateJob(i) ==
  /\ pc[i] = "submit"
  /\ LET l == locals[i].val
         out == OutputData(jobSettings[i].val, video_S3Key[i].val, l.destinationS3,
                           l.destination_bucket_name, l.destination_bucket_region)
     IN  /\ calls' = [calls EXCEPT ![i] =
                        Append(@, Call("create_job",
                                       CreateJobArgs(endpoints[i].val.Endpoints[1].Url,
                                                     l.mediaConvertRole, l.jobMetadata,
                                                     jobSettings[i].val)))]
         /\ \E o \in CreateJobOutcomes :
              IF o.raises
              THEN /\ ExceptClause(i, "ClientError")
                   /\ UNCHANGED <<job, outputData>>
              ELSE /\ job' = [job EXCEPT ![i] = Bound(o.value)]
                   /\ outputData' = [outputData EXCEPT ![i] = Bound(out)]
                   /\ result' = [result EXCEPT ![i] =
                                   FinallyOutcome(statusCode[i].val, Bound(out), "none")]
                   /\ pc' = [pc EXCEPT ![i] = "done"]
                   /\ UNCHANGED <<pending, statusCode>>
  /\ UNCHANGED <<environ, jobFile, event, reqBody, now, locals, jobSettings,
                 endpoints, video_S3Key>>

Next ==
  \E i \in Procs :
    \/ Invoke(i)
    \/ LoadTemplate(i)
    \/ DescribeEndpoints(i)
    \/ CreateJob(i)

Spec == Init /\ [][Next]_vars

SpecConc == InitConc /\ [][Next]_vars

(* ------------------------- reference notions --------------------------- *)

DigitSet == {DigitChars[k] : k \in 1..10}

AllDigits(s) == \A k \in 1..Len(s) : s[k] \in DigitSet

DigitValue(c) == CHOOSE d \in 0..9 : DigitChars[d + 1] = c

RECURSIVE ParseNat(_)
ParseNat(s) ==
  IF Len(s) = 0 THEN 0
  ELSE 10 * ParseNat(SubSeq(s, 1, Len(s) - 1)) + DigitValue(s[Len(s)])

MaxOf(S) == CHOOSE m \in S : \A k \in S : k <= m

\* The text after the last '/' of a locator (all of it when it has none).
LastSegment(url) ==
  LET slashes == {k \in 1..Len(url) : url[k] = "/"}
  IN  IF slashes = {} THEN url ELSE SubSeq(url, MaxOf(slashes) + 1, Len(url))

\* A name without its extension: cut before its last dot, unless that dot
\* has nothing but dots before it.
StripExtension(name) ==
  LET dots == {d \in 1..Len(name) :
                 name[d] = "." /\ \E k \in 1..(d - 1) : name[k] # "."}
  IN  IF dots = {} THEN name ELSE SubSeq(name, 1, MaxOf(dots) - 1)

\* s is the decimal text of the request's uniqueId (a text is its own).
IsStrOf(s, id) ==
  IF "num" \in DOMAIN id
  THEN LET mag == IF id.num < 0 THEN Tail(s) ELSE s
       IN  /\ Len(s) > 0
           /\ (id.num < 0) = (s[1] = "-")
           /\ Len(mag) > 0 /\ AllDigits(mag)
           /\ (Len(mag) = 1 \/ mag[1] # "0")
           /\ ParseNat(mag) = (IF id.num < 0 THEN 0 - id.num ELSE id.num)
  ELSE s = id.str

\* ts is the 14-digit YYYYMMDDHHMMSS text of the clock reading t.
IsTimestampOf(ts, t) ==
  /\ Len(ts) = 14 /\ AllDigits(ts)
  /\ ParseNat(SubSeq(ts, 1, 4)) = t.year
  /\ ParseNat(SubSeq(ts, 5, 6)) = t.month
  /\ ParseNat(SubSeq(ts, 7, 8)) = t.day
  /\ ParseNat(SubSeq(ts, 9, 10)) = t.hour
  /\ ParseNat(SubSeq(ts, 11, 12)) = t.minute
  /\ ParseNat(SubSeq(ts, 13, 14)) = t.second

Quoted(s) == <<"\"">> \o s \o <<"\"">>

Complete(body) == RequiredFields \subseteq DOMAIN body

OpsOf(i) == [k \in 1..Len(calls[i]) |-> calls[i][k].op]

CountOp(i, op) == Cardinality({k \in 1..Len(calls[i]) : calls[i][k].op = op})

StepOrder == <<"open", "describe_endpoints", "create_job">>

Is200(i) == result[i].kind = "response" /\ result[i].statusCode = 200

HlsDestination(settings) ==
  settings.OutputGroups[1].OutputGroupSettings.HlsGroupSettings.Destination

\* The success body for a bucket, a region and an object key.
SuccessBody(bucket, region, objectKey) ==
  <<"{">>
    \o Quoted(K_final_video_url) \o <<":", " ">>
    \o Quoted(S3Scheme \o bucket \o objectKey) \o <<",", " ">>
    \o Quoted(K_thumbnail_url) \o <<":", " ">> \o Quoted(EmptyStr) \o <<",", " ">>
    \o Quoted(K_video_s3_key) \o <<":", " ">> \o Quoted(objectKey) \o <<",", " ">>
    \o Quoted(K_video_s3_path) \o <<":", " ">>
    \o Quoted(S3Scheme \o bucket \o objectKey) \o <<",", " ">>
    \o Quoted(K_final_video_hls_url) \o <<":", " ">>
    \o Quoted(HttpsScheme \o bucket \o S3HostInfix \o region \o AwsHostSuffix
                \o objectKey \o M3u8Suffix)
    \o <<"}">>

(* ------------------------------ claims --------------------------------- *)

\* C1: a body lacking any of the four required keys is answered with status
\* 400 and the one fixed message (as JSON text), whichever key is missing.
C1_MissingFieldIs400 ==
  \A i \in Procs :
    (reqBody[i].bound /\ ~Complete(reqBody[i].val)) =>
      /\ result[i].kind = "response"
      /\ result[i].statusCode = 400
      /\ result[i].body = Quoted(ErrorMessage)
      /\ result[i].headers = Headers

C1_Witness ==
  \E i \in Procs :
    /\ reqBody[i].bound
    /\ DOMAIN reqBody[i].val = RequiredFields \ {"uniqueId"}
    /\ result[i].kind = "response" /\ result[i].statusCode = 400

\* C2: when create_job raises for a validated request, the invocation ends
\* with a response whose statusCode is 500.
C2_SubmitFailureIs500 ==
  \A i \in Procs :
    (/\ pc[i] = "done"
     /\ CountOp(i, "create_job") = 1
     /\ ~job[i].bound) =>
      (result[i].kind = "response" /\ result[i].statusCode = 500)

\* C3: when a step of the try block raises, outputData is unassigned, the
\* invocation ends with the secondary UnboundLocalError in place of the
\* original exception, and no response is returned.
C3_FailureEndsInSecondaryError ==
  \A i \in Procs :
    ((pc[i] = "done" /\ Len(calls[i]) > 0 /\ ~job[i].bound)
       \/ pending[i] # "none") =>
      /\ ~outputData[i].bound
      /\ pending[i] \in {"FileNotFoundError", "ClientError", "IndexError"}
      /\ result[i].kind = "error"
      /\ result[i].exc = "UnboundLocalError"
      /\ result[i].exc # pending[i]
      /\ result[i].context = pending[i]

C3_Witness ==
  \E i \in Procs :
    /\ pending[i] = "ClientError"
    /\ OpsOf(i) = StepOrder
    /\ result[i].kind = "error"

\* C4: the derived object key is "/public/" + str(uniqueId) + "/" + timestamp
\* + "/HLS/" + baseName, the timestamp being the 14-digit text of the one
\* clock reading of the invocation and baseName the last path segment of
\* video_source_url without its extension.
C4_ObjectKeyShape ==
  \A i \in Procs :
    video_S3Key[i].bound =>
      LET body == reqBody[i].val
          l == locals[i].val
      IN  /\ video_S3Key[i].val =
               PublicPrefix \o l.uniqueId \o <<"/">> \o l.currentTime_in_string
                 \o HlsInfix \o StripExtension(LastSegment(body["video_source_url"]))
          /\ IsStrOf(l.uniqueId, body["uniqueId"])
          /\ IsTimestampOf(l.currentTime_in_string, now[i].val)

C4_Witness ==
  \E i \in Procs :
    /\ video_S3Key[i].bound
    /\ reqBody[i].val["video_source_url"] = UrlClip
    /\ reqBody[i].val["uniqueId"] = [num |-> 42]
    /\ video_S3Key[i].val =
         PublicPrefix \o <<"4", "2">> \o <<"/">> \o locals[i].val.currentTime_in_string
           \o HlsInfix \o BaseClip

\* C5: a 200 response carries exactly the five fields, thumbnail_url empty,
\* video_s3_key the derived key, final_video_url and video_s3_path the s3://
\* path, final_video_hls_url the https URL; all built from the request, none
\* from what create_job returned.
C5_SuccessBody ==
  \A i \in Procs :
    Is200(i) =>
      /\ video_S3Key[i].bound
      /\ result[i].body =
           SuccessBody(reqBody[i].val["destination_bucket"],
                       reqBody[i].val["destination_bucket_region"],
                       video_S3Key[i].val)

C5_Witness ==
  \E i \in Procs :
    /\ Is200(i)
    /\ job[i].bound /\ job[i].val.Job.Id = "job-2"
    /\ reqBody[i].val["destination_bucket"] = BucketOther
    /\ reqBody[i].val["destination_bucket_region"] = RegionWest

\* C6: every create_job call carries the request's source URL as FileInput,
\* "s3://" + bucket + key as the HLS Destination, {assetID: str(uniqueId)} as
\* UserMetadata and the configured role; a 200 response reports that same
\* Destination as final_video_url and video_s3_path.
C6_SubmittedJob ==
  \A i \in Procs :
    \A k \in 1..Len(calls[i]) :
      calls[i][k].op = "create_job" =>
        LET a == calls[i][k].args
            body == reqBody[i].val
        IN  /\ a.Settings.Inputs[1].FileInput = body["video_source_url"]
            /\ HlsDestination(a.Settings) =
                 S3Scheme \o body["destination_bucket"] \o video_S3Key[i].val
            /\ DOMAIN a.UserMetadata = {"assetID"}
            /\ IsStrOf(a.UserMetadata.assetID, body["uniqueId"])
            /\ a.Role = environ["MediaConvertRole"]
            /\ Is200(i) =>
                 /\ outputData[i].val[1] =
                      Item(K_final_video_url, HlsDestination(a.Settings))
                 /\ outputData[i].val[4] =
                      Item(K_video_s3_path, HlsDestination(a.Settings))

C6_Witness ==
  \E i \in Procs :
    /\ Is200(i)
    /\ CountOp(i, "create_job") = 1
    /\ reqBody[i].val["uniqueId"] = [str |-> IdAsset]
    /\ reqBody[i].val["video_source_url"] = UrlTar

\* C7: the steps run in the order template load, describe_endpoints,
\* create_job, none twice; a failed load is followed by no remote call and a
\* failed describe_endpoints by no create_job.
C7_StepsInOrderNoRetry ==
  \A i \in Procs :
    /\ Len(calls[i]) <= Len(StepOrder)
    /\ OpsOf(i) = SubSeq(StepOrder, 1, Len(calls[i]))
    /\ (Len(calls[i]) >= 1 /\ ~jobSettings[i].bound) =>
         (pc[i] = "done" /\ OpsOf(i) = <<"open">>)
    /\ (Len(calls[i]) >= 2 /\ ~endpoints[i].bound) =>
         (pc[i] = "done" /\ CountOp(i, "create_job") = 0)
    /\ pending[i] # "none" => pc[i] = "done"

C7_Witness ==
  \E i \in Procs :
    /\ pc[i] = "done"
    /\ pending[i] = "ClientError"
    /\ ~endpoints[i].bound
    /\ OpsOf(i) = <<"open", "describe_endpoints">>

\* C10: at most one create_job and one describe_endpoints call per
\* invocation; an incomplete request reads no template, makes no remote call
\* and gets its 400 whatever the configuration; a 200 response comes only
\* after exactly one create_job call that returned.
C10_CallCounts ==
  \A i \in Procs :
    /\ CountOp(i, "create_job") <= 1
    /\ CountOp(i, "describe_endpoints") <= 1
    /\ (reqBody[i].bound /\ ~Complete(reqBody[i].val)) =>
         /\ calls[i] = <<>>
         /\ result[i].kind = "response" /\ result[i].statusCode = 400
    /\ Is200(i) =>
         /\ CountOp(i, "create_job") = 1
         /\ calls[i][Len(calls[i])].op = "create_job"
         /\ job[i].bound
         /\ pending[i] = "none"

C10_Witness ==
  \E i \in Procs :
    /\ reqBody[i].bound /\ ~Complete(reqBody[i].val)
    /\ "MediaConvertRole" \notin DOMAIN environ
    /\ result[i].kind = "response" /\ result[i].statusCode = 400
    /\ calls[i] = <<>>

\* What one invocation submits, from its own request and clock reading alone.
OwnKey(body, t) ==
  VideoS3Key(PyStr(body["uniqueId"]), Strftime(t),
             SourceS3Basename(body["video_source_url"]))

OwnSettings(body, t) ==
  FillJobSettings(JobTemplate, body["video_source_url"],
                  DestinationS3(body["destination_bucket"]), OwnKey(body, t))

\* C8: with invocations overlapping in any interleaving, the job each one
\* submits and the response it returns are determined by its own request,
\* its own clock reading and the configuration, and job.json as later
\* invocations read it is the template as deployed.
C8_InvocationsIsolated ==
  /\ jobFile \in JobFiles
  /\ \A i \in Procs :
       /\ pc[i] = "describe" => jobSettings[i].val = JobTemplate
       /\ \A k \in 1..Len(calls[i]) :
            calls[i][k].op = "create_job" =>
              /\ calls[i][k].args.Settings = OwnSettings(reqBody[i].val, now[i].val)
              /\ calls[i][k].args.UserMetadata =
                   [assetID |-> PyStr(reqBody[i].val["uniqueId"])]
              /\ calls[i][k].args.Role = environ["MediaConvertRole"]
       /\ Is200(i) =>
            result[i].body =
              SuccessBody(reqBody[i].val["destination_bucket"],
                          reqBody[i].val["destination_bucket_region"],
                          OwnKey(reqBody[i].val, now[i].val))

C8_Witness ==
  \E i, j \in Procs :
    /\ i # j
    /\ Is200(i)
    /\ pc[j] = "describe"
    /\ reqBody[j].val # reqBody[i].val
    /\ now[j].val # now[i].val

SameSecond(t1, t2) == [t1 EXCEPT !.microsecond = 0] = [t2 EXCEPT !.microsecond = 0]

\* Two invocations that both derived a key for equal request bodies.
Twins(i, j) ==
  /\ i # j
  /\ video_S3Key[i].bound /\ video_S3Key[j].bound
  /\ reqBody[i].val = reqBody[j].val

DistinctOutputs(i, j) ==
  /\ video_S3Key[i].val # video_S3Key[j].val
  /\ HlsDestination(jobSettings[i].val) # HlsDestination(jobSettings[j].val)

\* C9 as stated: two identical valid requests handled at different times get
\* different object keys and different job destinations.
C9_DifferentTimesDifferentKeys ==
  \A i, j \in Procs :
    (Twins(i, j) /\ now[i].val # now[j].val) => DistinctOutputs(i, j)

\* C9 amended: two identical valid requests whose clock readings fall in
\* different seconds get different object keys and different destinations.
C9_DifferentSecondsDifferentKeys ==
  \A i, j \in Procs :
    (Twins(i, j) /\ ~SameSecond(now[i].val, now[j].val)) => DistinctOutputs(i, j)

C9_Witness ==
  \E i, j \in Procs :
    /\ Twins(i, j)
    /\ now[i].val.second # now[j].val.second
    /\ DistinctOutputs(i, j)
====
